---- MODULE Spec2Model ----
(***************************************************************************)
(* Model of eval/evaluation_metric.py: the per-label Dice, 95% Hausdorff   *)
(* and Volume Similarity passes over two label volumes, in both variants   *)
(* (the SimpleITK passes getDSC / getHausdorff / getVS and the array       *)
(* passes get_dice_score / get_hausdorff_distance /                        *)
(* get_volumetric_symmetry).                                               *)
(*                                                                         *)
(* A volume is stored flattened in numpy order (z slowest, x fastest), as  *)
(* GetArrayFromImage(...).flatten() gives it; the array passes receive the *)
(* same flattened volumes as lab2d / pred2d.                               *)
(*                                                                         *)
(* Library semantics the code relies on, modelled by what they compute:    *)
(*   sitk.BinaryThreshold(img,k,k,1,0)  indicator of img = k               *)
(*   sitk.StatisticsImageFilter         Execute overwrites the statistics  *)
(*   sitk.BinaryErode(img,(1,1,0))      3x3x1 kernel, foreground 1, the    *)
(*                                      outside of the image counts as     *)
(*                                      foreground (boundaryToForeground   *)
(*                                      is True by default)                *)
(*   scipy.spatial.distance.dice        non-boolean input: ntt = sum(u*v), *)
(*                                      nft = sum((1-u)*v),                *)
(*                                      ntf = sum(u*(1-v)); the quotient   *)
(*                                      raises ZeroDivisionError on a zero *)
(*                                      denominator, as the code documents *)
(*   scipy.spatial.KDTree(a).query(b)   needs 2-d data a with rows and     *)
(*                                      queries b of the same row width,   *)
(*                                      else raises ValueError             *)
(*   np.percentile(d, 95)               linear interpolation               *)
(* Reals are exact rationals n/d in lowest terms; Euclidean distances are  *)
(* fixed-point, in hundredths of a millimetre. Label arrays hold signed    *)
(* integers, so that sums and differences do not wrap.                     *)
(***************************************************************************)
EXTENDS Integers, Sequences, FiniteSets, TLC

\* ---------------------------------------------------------------- bounds
\* Number of voxels along x. The volumes are one row of voxels in one slice.
DimX == 3
\* Shape of the two volumes (voxels along x, y and the slice axis z).
Shape == <<DimX, 1, 1>>
\* Voxel spacing in millimetres along x, y, z (metadata of the test image).
SpacingX == 1
SpacingY == 1
SpacingZ == 3

\* Label values a voxel can hold: background, one tissue label whose value
\* differs from its indicator, and one value outside the Label Set.
VoxelValues == {0, 2, 9}

\* ---------------------------------------------------------- the Label Set
\* labels = {0: 'Background', ..., 8: 'Brain stem'}; labels.keys() and
\* range(9) both iterate 0, 1, ..., 8.
labels == <<0, 1, 2, 3, 4, 5, 6, 7, 8>>
NumLabels == 9

NumVoxels == Shape[1] * Shape[2] * Shape[3]
Index == 1..NumVoxels
\* numpy position p (1-based, flattened) -> voxel index along each axis
XOf(p) == (p - 1) % Shape[1]
YOf(p) == ((p - 1) \div Shape[1]) % Shape[2]
ZOf(p) == (p - 1) \div (Shape[1] * Shape[2])

\* ------------------------------------------------------------- arithmetic
Abs(n) == IF n < 0 THEN -n ELSE n

RECURSIVE GCD(_, _)
GCD(a, b) == IF b = 0 THEN a ELSE GCD(b, a % b)

\* A metric value: the undefined marker None, or the rational n/d, d > 0.
None == [tag |-> "None", n |-> 0, d |-> 1]
Frac(n, d) ==
    LET s == IF d < 0 THEN -1 ELSE 1
        g == GCD(Abs(n), Abs(d))
    IN  [tag |-> "num", n |-> (s * n) \div g, d |-> (s * d) \div g]
Whole(n) == Frac(n, 1)
\* 1 - q
OneMinus(q) == Frac(q.d - q.n, q.d)

RECURSIVE SumTo(_, _)
SumTo(f, n) == IF n = 0 THEN 0 ELSE f[n] + SumTo(f, n - 1)
\* np.sum / StatisticsImageFilter sum of a flattened array
ArraySum(f) == SumTo(f, NumVoxels)

\* floor(sqrt(n))
RECURSIVE ISqrt(_)
ISqrt(n) ==
    IF n < 2 THEN n
    ELSE LET r == 2 * ISqrt(n \div 4)
         IN  IF (r + 1) * (r + 1) <= n THEN r + 1 ELSE r

\* ------------------------------------------------------------ SimpleITK
\* sitk.BinaryThreshold(image, k, k, 1, 0)
BinaryThreshold(image, k) == [p \in Index |-> IF image[p] = k THEN 1 ELSE 0]

\* sitk.StatisticsImageFilter(): a fresh filter; Execute(image) replaces
\* the statistics of the filter by those of image; GetSum() reads them.
StatisticsImageFilter == [sum |-> 0]
ExecuteAccumulating(filter, image) == [sum |-> filter.sum + ArraySum(image)]
Execute(filter, image) == [sum |-> ArraySum(image)]
GetSum(filter) == filter.sum

\* In-plane 3x3 neighbourhood of p inside the image (kernel radius (1,1,0)).
Neighbours(p) ==
    {q \in Index : /\ ZOf(q) = ZOf(p)
                   /\ Abs(XOf(q) - XOf(p)) <= 1
                   /\ Abs(YOf(q) - YOf(p)) <= 1}
\* sitk.BinaryErode(image, (1, 1, 0)): a foreground voxel survives when the
\* whole kernel is foreground; kernel positions outside the image count as
\* foreground.
BinaryErode(image) ==
    [p \in Index |-> IF image[p] = 1 /\ \A q \in Neighbours(p) : image[q] = 1
                     THEN 1 ELSE 0]
\* sitk.Subtract(a, b)
Subtract(a, b) == [p \in Index |-> a[p] - b[p]]

\* image.TransformIndexToPhysicalPoint((x, y, z)): origin 0, identity
\* direction, the spacing of the test image (copied to the result image).
TransformIndexToPhysicalPoint(p) ==
    <<XOf(p) * SpacingX, YOf(p) * SpacingY, ZOf(p) * SpacingZ>>

\* ----------------------------------------------------------------- numpy
\* np.where(a == k, a, 0)
Where(a, k) == [p \in Index |-> IF a[p] = k THEN a[p] ELSE 0]

RECURSIVE NonzeroUpTo(_, _)
NonzeroUpTo(a, n) ==
    IF n = 0 THEN <<>>
    ELSE IF a[n] # 0 THEN Append(NonzeroUpTo(a, n - 1), n)
         ELSE NonzeroUpTo(a, n - 1)
\* np.nonzero(a): the positions of the non-zero elements, in numpy order
Nonzero(a) == NonzeroUpTo(a, NumVoxels)

\* np.asarray of a list of n coordinate triples: shape (n, 3), or (0,) for
\* the empty list.
CoordinateArray(ps) ==
    [shape |-> IF Len(ps) = 0 THEN <<0>> ELSE <<Len(ps), 3>>,
     rows  |-> [j \in 1..Len(ps) |-> TransformIndexToPhysicalPoint(ps[j])]]
\* np.reshape(a, [220, 220, 48]): a 3-d array, here of the volume's shape
Reshape(a) == [shape |-> Shape, rows |-> <<>>]

RECURSIVE Insert(_, _)
Insert(s, v) ==
    IF s = <<>> THEN <<v>>
    ELSE IF v <= Head(s) THEN <<v>> \o s
         ELSE <<Head(s)>> \o Insert(Tail(s), v)
RECURSIVE Sort(_)
Sort(s) == IF s = <<>> THEN <<>> ELSE Insert(Sort(Tail(s)), Head(s))

\* 20 * np.percentile(d, 95): with pos = 0.95 * (n - 1) = lo + r/20, the
\* value is d[lo] + (r/20) * (d[lo+1] - d[lo]) over the sorted d.
Percentile95x20(d) ==
    LET s  == Sort(d)
        n  == Len(s)
        lo == (19 * (n - 1)) \div 20
        r  == (19 * (n - 1)) % 20
    IN  IF r = 0 THEN 20 * s[lo + 1]
        ELSE 20 * s[lo + 1] + r * (s[lo + 2] - s[lo + 1])

\* ----------------------------------------------------------------- scipy
\* scipy.spatial.distance.dice(u, v) on integer vectors
DiceNtt(u, v) == ArraySum([p \in Index |-> u[p] * v[p]])
DiceNft(u, v) == ArraySum([p \in Index |-> (1 - u[p]) * v[p]])
DiceNtf(u, v) == ArraySum([p \in Index |-> u[p] * (1 - v[p])])
DiceDenominator(u, v) == 2 * DiceNtt(u, v) + DiceNtf(u, v) + DiceNft(u, v)
DiceRaisesZeroDivision(u, v) == DiceDenominator(u, v) = 0
dice(u, v) == Frac(DiceNtf(u, v) + DiceNft(u, v), DiceDenominator(u, v))

\* scipy.spatial.KDTree(a): self.n, self.m = np.shape(data) needs 2-d data
KDTreeRaises(a) == Len(a.shape) # 2
\* kdTree.query(b): the last axis of b must have the tree's row width
QueryRaises(a, b) == b.shape[Len(b.shape)] # a.shape[2]
\* Euclidean distance (p = 2) in hundredths of a millimetre
Distance(u, v) ==
    ISqrt(10000 * ((u[1] - v[1]) * (u[1] - v[1])
                   + (u[2] - v[2]) * (u[2] - v[2])
                   + (u[3] - v[3]) * (u[3] - v[3])))
Min(S) == CHOOSE m \in S : \A x \in S : m <= x
Max2(a, b) == IF a >= b THEN a ELSE b
\* kdTree.query(b, k=1, eps=0, p=2)[0]: for every row of b, the distance to
\* the nearest row of a
Query(a, b) ==
    [j \in 1..Len(b.rows) |->
        Min({Distance(a.rows[i], b.rows[j]) : i \in 1..Len(a.rows)})]
\* getDistancesFromAtoB raises when the tree cannot be built or queried
getDistancesFromAtoBRaises(a, b) ==
    KDTreeRaises(a) \/ QueryRaises(a, b)
getDistancesFromAtoB(a, b) == Query(a, b)

\* ------------------------------------------------------------------ state
VARIABLES
    testImage,         \* the test (ground truth) volume, flattened; lab2d
    resultImage,       \* the result (predicted) volume, flattened; pred2d
    fn,                \* the metric pass being run, "none" before the call
    i,                 \* position of the pass's loop in labels (1-based)
    result,            \* the pass's dict, as its entries in insertion order
    status,            \* "idle", "running", "returned" or "raised"
    testStatistics,    \* getVS: the filter built once before the loop
    resultStatistics,  \* getVS: the filter built once before the loop
    erodeCalls,        \* labels for which boundary extraction was started
    nnCalls            \* invocations of getDistancesFromAtoB: label, |a|, |b|

vars == <<testImage, resultImage, fn, i, result, status,
          testStatistics, resultStatistics, erodeCalls, nnCalls>>

Functions == {"getDSC", "getHausdorff", "getVS",
              "get_dice_score", "get_hausdorff_distance",
              "get_volumetric_symmetry"}

Entry(k, v) == [k |-> k, v |-> v]

\* --------------------------------------------------- one loop body each
\* getDSC, body of the loop for label k
getDSC_value(test, res, k) ==
    LET testArray   == BinaryThreshold(test, k)
        resultArray == BinaryThreshold(res, k)
    IN  IF DiceRaisesZeroDivision(testArray, resultArray) THEN None
        ELSE OneMinus(dice(testArray, resultArray))

\* get_dice_score, body of the loop for label k
get_dice_score_value(lab2d, pred2d, k) ==
    LET u == Where(lab2d, k)
        v == Where(pred2d, k)
    IN  IF DiceRaisesZeroDivision(u, v) THEN Whole(0)
        ELSE OneMinus(dice(u, v))

\* getHausdorff: the sums read from the per-iteration statistics filter
lTestSum(test, k) ==
    GetSum(Execute(StatisticsImageFilter, BinaryThreshold(test, k)))
lResultSum(test, res, k) ==
    LET statistics == Execute(StatisticsImageFilter, BinaryThreshold(test, k))
    IN  GetSum(Execute(statistics, BinaryThreshold(res, k)))
HausdorffGuard(test, res, k) ==
    lTestSum(test, k) = 0 \/ lResultSum(test, res, k) = 0
\* getHausdorff: ORIGINAL - ERODED, then the world coordinates of the
\* non-zero voxels
BoundaryCoordinates(image, k) ==
    LET lImage == BinaryThreshold(image, k)
        eImage == BinaryErode(lImage)
        hImage == Subtract(lImage, eImage)
    IN  CoordinateArray(Nonzero(hImage))
\* getHausdorff: max of the two 95th percentiles
HausdorffFromCoordinates(a, b) ==
    LET dTestToResult == getDistancesFromAtoB(a, b)
        dResultToTest == getDistancesFromAtoB(b, a)
    IN  Frac(Max2(Percentile95x20(dTestToResult),
                  Percentile95x20(dResultToTest)), 2000)
\* getHausdorff, body of the loop for label k: the entry, or the exception
getHausdorff_outcome(test, res, k) ==
    IF HausdorffGuard(test, res, k) THEN [raised |-> FALSE, v |-> None]
    ELSE LET testCoordinates   == BoundaryCoordinates(test, k)
             resultCoordinates == BoundaryCoordinates(res, k)
         IN  IF \/ getDistancesFromAtoBRaises(testCoordinates, resultCoordinates)
                \/ getDistancesFromAtoBRaises(resultCoordinates, testCoordinates)
             THEN [raised |-> TRUE, v |-> None]
             ELSE [raised |-> FALSE,
                   v |-> HausdorffFromCoordinates(testCoordinates,
                                                  resultCoordinates)]

\* getVS / get_volumetric_symmetry: 1 - float(numerator) / denominator
VSFromSums(a, b) ==
    LET numerator   == Abs(a - b)
        denominator == a + b
    IN  IF denominator > 0 THEN OneMinus(Frac(numerator, denominator))
        ELSE None
\* getVS, body of the loop for label k, from the two filters after Execute
getVS_value(tStat, rStat) == VSFromSums(GetSum(tStat), GetSum(rStat))

\* get_volumetric_symmetry, body of the loop for label k
get_volumetric_symmetry_NoAbs(lab2d, pred2d, k) ==
    LET gt_labels   == Where(lab2d, k)
        pred_labels == Where(pred2d, k)
        numerator   == ArraySum(gt_labels) - ArraySum(pred_labels)
        denominator == ArraySum(gt_labels) + ArraySum(pred_labels)
    IN  IF denominator > 0 THEN OneMinus(Frac(numerator, denominator))
        ELSE None
get_volumetric_symmetry_value(lab2d, pred2d, k) ==
    LET gt_labels   == Where(lab2d, k)
        pred_labels == Where(pred2d, k)
        numerator   == Abs(ArraySum(gt_labels) - ArraySum(pred_labels))
        denominator == ArraySum(gt_labels) + ArraySum(pred_labels)
    IN  IF denominator > 0 THEN OneMinus(Frac(numerator, denominator))
        ELSE None

\* ------------------------------------------------------------------- Init
Init ==
    /\ testImage \in [Index -> VoxelValues]
    /\ resultImage \in [Index -> VoxelValues]
    /\ fn = "none"
    /\ i = 1
    /\ result = <<>>
    /\ status = "idle"
    /\ testStatistics = StatisticsImageFilter
    /\ resultStatistics = StatisticsImageFilter
    /\ erodeCalls = {}
    /\ nnCalls = {}

\* ---------------------------------------------------------------- actions
\* A caller (evaluate_stats for the first three) enters one metric pass:
\* the dict is created empty; getVS also builds its two statistics filters.
Call ==
    /\ status = "idle"
    /\ \E f \in Functions : fn' = f
    /\ status' = "running"
    /\ i' = 1
    /\ result' = <<>>
    /\ testStatistics' = StatisticsImageFilter
    /\ resultStatistics' = StatisticsImageFilter
    /\ UNCHANGED <<testImage, resultImage, erodeCalls, nnCalls>>

Running(f) == status = "running" /\ fn = f /\ i <= Len(labels)

getDSC_iter ==
    /\ Running("getDSC")
    /\ LET k == labels[i]
       IN  result' = Append(result, Entry(k, getDSC_value(testImage, resultImage, k)))
    /\ i' = i + 1
    /\ UNCHANGED <<testImage, resultImage, fn, status, testStatistics,
                   resultStatistics, erodeCalls, nnCalls>>

getHausdorff_iter ==
    /\ Running("getHausdorff")
    /\ LET k == labels[i]
           o == getHausdorff_outcome(testImage, resultImage, k)
       IN  IF HausdorffGuard(testImage, resultImage, k)
           THEN /\ result' = Append(result, Entry(k, None))
                /\ i' = i + 1
                /\ UNCHANGED <<status, erodeCalls, nnCalls>>
           ELSE /\ erodeCalls' = erodeCalls \cup {k}
                /\ nnCalls' = nnCalls \cup
                     {[k |-> k,
                       a |-> Len(BoundaryCoordinates(testImage, k).rows),
                       b |-> Len(BoundaryCoordinates(resultImage, k).rows)]}
                /\ IF o.raised
                   THEN /\ status' = "raised"
                        /\ UNCHANGED <<result, i>>
                   ELSE /\ result' = Append(result, Entry(k, o.v))
                        /\ i' = i + 1
                        /\ UNCHANGED status
    /\ UNCHANGED <<testImage, resultImage, fn, testStatistics, resultStatistics>>

getVS_iter ==
    /\ Running("getVS")
    /\ LET k == labels[i]
       IN  /\ testStatistics' = Execute(testStatistics, BinaryThreshold(testImage, k))
           /\ resultStatistics' = Execute(resultStatistics, BinaryThreshold(resultImage, k))
           /\ result' = Append(result, Entry(k, getVS_value(testStatistics', resultStatistics')))
    /\ i' = i + 1
    /\ UNCHANGED <<testImage, resultImage, fn, status, erodeCalls, nnCalls>>

get_dice_score_iter ==
    /\ Running("get_dice_score")
    /\ LET k == labels[i]
       IN  result' = Append(result, Entry(k, get_dice_score_value(testImage, resultImage, k)))
    /\ i' = i + 1
    /\ UNCHANGED <<testImage, resultImage, fn, status, testStatistics,
                   resultStatistics, erodeCalls, nnCalls>>

\* No guard on empty masks and no boundary extraction: the two reshaped 3-d
\* arrays go straight to getDistancesFromAtoB.
get_hausdorff_distance_iter ==
    /\ Running("get_hausdorff_distance")
    /\ LET k        == labels[i]
           gt_val   == Reshape(Where(testImage, k))
           pred_val == Reshape(Where(resultImage, k))
       IN  /\ nnCalls' = nnCalls \cup
                 {[k |-> k,
                   a |-> ArraySum(BinaryThreshold(testImage, k)),
                   b |-> ArraySum(BinaryThreshold(resultImage, k))]}
           /\ IF \/ getDistancesFromAtoBRaises(gt_val, pred_val)
                 \/ getDistancesFromAtoBRaises(pred_val, gt_val)
              THEN /\ status' = "raised"
                   /\ UNCHANGED <<result, i>>
              ELSE /\ result' = Append(result,
                          Entry(k, HausdorffFromCoordinates(gt_val, pred_val)))
                   /\ i' = i + 1
                   /\ UNCHANGED status
    /\ UNCHANGED <<testImage, resultImage, fn, testStatistics,
                   resultStatistics, erodeCalls>>

get_volumetric_symmetry_iter ==
    /\ Running("get_volumetric_symmetry")
    /\ LET k == labels[i]
       IN  result' = Append(result,
               Entry(k, get_volumetric_symmetry_value(testImage, resultImage, k)))
    /\ i' = i + 1
    /\ UNCHANGED <<testImage, resultImage, fn, status, testStatistics,
                   resultStatistics, erodeCalls, nnCalls>>

\* return dsc / hd / vs / h_dist once the loop has passed the last label
Return ==
    /\ status = "running"
    /\ i > Len(labels)
    /\ status' = "returned"
    /\ UNCHANGED <<testImage, resultImage, fn, i, result, testStatistics,
                   resultStatistics, erodeCalls, nnCalls>>

Next ==
    \/ Call
    \/ getDSC_iter
    \/ getHausdorff_iter
    \/ getVS_iter
    \/ get_dice_score_iter
    \/ get_hausdorff_distance_iter
    \/ get_volumetric_symmetry_iter
    \/ Return

Spec == Init /\ [][Next]_vars

TypeOK ==
    /\ fn \in Functions \cup {"none"}
    /\ status \in {"idle", "running", "returned", "raised"}
    /\ i \in 1..(Len(labels) + 1)
    /\ Len(result) = i - 1

\* ---------------------------------------------------- vocabulary of claims
SitkPasses == {"getDSC", "getHausdorff", "getVS"}
LabelSet == {labels[j] : j \in 1..Len(labels)}
HasKey(k) == \E j \in 1..Len(result) : result[j].k = k
ValueOf(k) == result[CHOOSE j \in 1..Len(result) : result[j].k = k].v
\* voxel counts of label k in the test and the result volume
CountTest(k) == Cardinality({p \in Index : testImage[p] = k})
CountResult(k) == Cardinality({p \in Index : resultImage[p] = k})
SameMask(k) == \A p \in Index : (testImage[p] = k) <=> (resultImage[p] = k)
\* the exception was raised in the iteration of label k
RaisedAt(k) == status = "raised" /\ i <= Len(labels) /\ labels[i] = k
\* the volume with every voxel that is not k replaced by another value
Isolate(image, k) ==
    [p \in Index |-> IF image[p] = k THEN k ELSE IF k = 9 THEN 0 ELSE 9]

\* C1: for any pair of volumes each of getDSC, getHausdorff and getVS
\* returns a mapping with exactly the keys 0..8 in the Label Set's order;
\* during the loop the keys are a prefix of that order.
C1_NineKeysInOrder ==
    fn \in SitkPasses =>
        /\ Len(result) <= Len(labels)
        /\ \A j \in 1..Len(result) : result[j].k = labels[j]
        /\ status \in {"returned", "raised"} =>
               status = "returned" /\ Len(result) = NumLabels

\* C2: a degenerate label (absent from one or both volumes) never aborts
\* the pass: it gets None exactly for the affected metric (Hausdorff when
\* either mask is empty, Dice and Volume Similarity when both are), and the
\* loop processes every remaining label.
C2_DegenerateLabelDoesNotAbort ==
    \A k \in LabelSet :
        (fn \in SitkPasses /\ HasKey(k)
            /\ (CountTest(k) = 0 \/ CountResult(k) = 0)) =>
            /\ (ValueOf(k) = None) <=>
                   (fn = "getHausdorff" \/ CountTest(k) + CountResult(k) = 0)
            /\ status # "raised"
            /\ status = "returned" => Len(result) = NumLabels

\* C3: at both Hausdorff call sites a label with an empty test or result
\* mask gets None, and neither boundary extraction nor a nearest-neighbour
\* query is performed for it.
C3_HausdorffUndefinedOnEmptyMask ==
    \A k \in LabelSet :
        (fn \in {"getHausdorff", "get_hausdorff_distance"}
            /\ (CountTest(k) = 0 \/ CountResult(k) = 0)) =>
            /\ k \notin erodeCalls
            /\ \A c \in nnCalls : c.k # k
            /\ ~RaisedAt(k)
            /\ HasKey(k) => ValueOf(k) = None

\* C4: at both Dice call sites a label whose two masks are entirely zero
\* gets None, not 0 and not an exception.
C4_DiceUndefinedWhenBothEmpty ==
    \A k \in LabelSet :
        (fn \in {"getDSC", "get_dice_score"} /\ HasKey(k)
            /\ CountTest(k) + CountResult(k) = 0) =>
            ValueOf(k) = None

\* C5: in getVS and get_volumetric_symmetry, with A and B the voxel counts
\* of the label: the value is None exactly when A + B = 0, otherwise it is
\* 1 - |A - B| / (A + B), lies in [0, 1] and is 1 iff A = B.
C5_VolumeSimilarityFormula ==
    \A k \in LabelSet :
        (fn \in {"getVS", "get_volumetric_symmetry"} /\ HasKey(k)) =>
            LET A == CountTest(k)
                B == CountResult(k)
                v == ValueOf(k)
            IN  /\ (v = None) <=> (A + B = 0)
                /\ A + B > 0 =>
                      /\ v = OneMinus(Frac(Abs(A - B), A + B))
                      /\ 0 <= v.n /\ v.n <= v.d
                      /\ (v = Whole(1)) <=> (A = B)

\* C6: at both Dice call sites Dice of a non-empty mask against itself is 1.
C6_DiceSelfSimilarity ==
    \A k \in LabelSet :
        (fn \in {"getDSC", "get_dice_score"} /\ HasKey(k)
            /\ SameMask(k) /\ CountTest(k) > 0) =>
            ValueOf(k) = Whole(1)

\* C7: in getHausdorff the distance of a non-empty mask against itself is
\* defined and equals 0, also for a mask that fills whole slices.
C7_HausdorffSelfDistanceZero ==
    \A k \in LabelSet :
        (fn = "getHausdorff" /\ SameMask(k) /\ CountTest(k) > 0) =>
            /\ ~RaisedAt(k)
            /\ HasKey(k) => ValueOf(k) = Whole(0)

\* C8: in getHausdorff the nearest-neighbour engine is only ever invoked
\* with two non-empty point sets.
C8_EngineNeverGetsEmptySet ==
    fn = "getHausdorff" => \A c \in nnCalls : c.a > 0 /\ c.b > 0

\* The entry the pass computes for label k alone, with freshly built
\* filters, on the volumes in which every other voxel is replaced.
IsolatedValue(f, k) ==
    LET t == Isolate(testImage, k)
        r == Isolate(resultImage, k)
    IN  CASE f = "getDSC" -> getDSC_value(t, r, k)
          [] f = "getHausdorff" ->
                 IF getHausdorff_outcome(t, r, k).raised THEN Entry(k, "raised")
                 ELSE getHausdorff_outcome(t, r, k).v
          [] f = "getVS" ->
                 getVS_value(Execute(StatisticsImageFilter, BinaryThreshold(t, k)),
                             Execute(StatisticsImageFilter, BinaryThreshold(r, k)))
          [] f = "get_dice_score" -> get_dice_score_value(t, r, k)
          [] f = "get_volumetric_symmetry" ->
                 get_volumetric_symmetry_value(t, r, k)
          [] OTHER -> None

\* C9: the entry of label k depends only on the two masks of k: it is the
\* value the pass computes for k alone from fresh filters, whatever the
\* other voxels hold and whichever labels were processed before.
C9_EntryDependsOnlyOnOwnMasks ==
    \A j \in 1..Len(result) :
        fn # "get_hausdorff_distance" =>
            result[j].v = IsolatedValue(fn, result[j].k)

\* getVS has reused its two filters over two labels present in both
\* volumes, next to voxels of a foreign label.
C9_Witness ==
    /\ fn = "getVS"
    /\ status = "returned"
    /\ CountTest(0) > 0 /\ CountResult(0) > 0
    /\ CountTest(2) > 0 /\ CountResult(2) > 0 /\ CountResult(9) > 0
    /\ ValueOf(0).tag = "num"
    /\ ValueOf(2).tag = "num"

====
